---- MODULE Spec2Model ----
(***************************************************************************)
(* Model of hmw_01.py: the address book (Field types, Record,              *)
(* AddressBook), the command handlers behind input_error, the pickle       *)
(* persistence and the REPL driver of AddressBookApp.                      *)
(*                                                                         *)
(* A Python str is a sequence of one-character strings; a character        *)
(* outside ASCII is written by its code point ("U+0661").  Text the        *)
(* program builds for display (return values, exception messages) is a     *)
(* TLA+ string.                                                            *)
(***************************************************************************)
EXTENDS Integers, Sequences, FiniteSets, TLC

VARIABLES book, file, pc, exitStatus, closed, unsaved, pre, call, out

vars == <<book, file, pc, exitStatus, closed, unsaved, pre, call, out>>

(***************************************************************************)
(* Bounds and program constants                                            *)
(***************************************************************************)
\* Cap on the number of phones stored in the whole address book.
MaxPhones == 2

\* {10} of the pattern r'^\d{10}$'.
PhoneDigits == 10

\* days=7, the default of get_upcoming_birthdays.
DefaultDays == 7

(***************************************************************************)
(* Python values                                                           *)
(***************************************************************************)
None == [none |-> TRUE]

AsciiDigitSeq == <<"0", "1", "2", "3", "4", "5", "6", "7", "8", "9">>

AsciiDigits == {AsciiDigitSeq[i] : i \in 1..10}

\* ARABIC-INDIC DIGIT ZERO..NINE, Unicode category Nd.
ArabicIndicDigits ==
    {"U+0660", "U+0661", "U+0662", "U+0663", "U+0664",
     "U+0665", "U+0666", "U+0667", "U+0668", "U+0669"}

\* \d of a str pattern: every Unicode decimal digit.
IsDecimalDigit(c) == c \in AsciiDigits \cup ArabicIndicDigits

\* What str.split() with no separator splits on.
Whitespace == {" ", "\n", "\t"}

DigitValue(c) == (CHOOSE i \in 1..10 : AsciiDigitSeq[i] = c) - 1

RECURSIVE Text(_)
\* The display text of a str.
Text(s) == IF s = <<>> THEN "" ELSE Head(s) \o Text(Tail(s))

RECURSIVE Number(_)
\* int() of a str of ASCII digits.
Number(s) ==
    IF s = <<>> THEN 0
    ELSE 10 * Number(SubSeq(s, 1, Len(s) - 1)) + DigitValue(s[Len(s)])

RECURSIVE Join(_, _)
\* sep.join(texts), texts a sequence of display texts.
Join(sep, texts) ==
    IF texts = <<>> THEN ""
    ELSE IF Len(texts) = 1 THEN texts[1]
    ELSE texts[1] \o sep \o Join(sep, Tail(texts))

\* The first of a set of indices, 0 when there is none.
First(S) == IF S = {} THEN 0 ELSE CHOOSE i \in S : \A j \in S : i <= j

RemoveAt(seq, i) == SubSeq(seq, 1, i - 1) \o SubSeq(seq, i + 1, Len(seq))

(***************************************************************************)
(* Calendar arithmetic of datetime                                         *)
(***************************************************************************)
IsLeap(y) == (y % 4 = 0) /\ ((y % 100 # 0) \/ (y % 400 = 0))

DaysInMonth(y, m) ==
    IF m = 2 THEN (IF IsLeap(y) THEN 29 ELSE 28)
    ELSE IF m \in {4, 6, 9, 11} THEN 30 ELSE 31

\* What the datetime constructor accepts.
ValidDate(y, m, d) ==
    /\ y \in 1..9999
    /\ m \in 1..12
    /\ d \in 1..DaysInMonth(y, m)

RECURSIVE DaysBeforeMonth(_, _)
DaysBeforeMonth(y, m) ==
    IF m = 1 THEN 0 ELSE DaysBeforeMonth(y, m - 1) + DaysInMonth(y, m - 1)

\* date.toordinal(): 1 for 0001-01-01.
ToOrdinal(y, m, d) ==
    365 * (y - 1) + ((y - 1) \div 4) - ((y - 1) \div 100) + ((y - 1) \div 400)
        + DaysBeforeMonth(y, m) + d

\* A datetime [y, m, d, s] (s: the second of the day) as the day and the
\* second of the day it is.
Instant(dt) == [day |-> ToOrdinal(dt.y, dt.m, dt.d), s |-> dt.s]

\* instant + timedelta(days=days)
PlusDays(instant, days) == [instant EXCEPT !.day = @ + days]

\* a <= b of two datetimes
NotAfter(a, b) == a.day < b.day \/ (a.day = b.day /\ a.s <= b.s)

Pad2(n) == AsciiDigitSeq[(n \div 10) + 1] \o AsciiDigitSeq[(n % 10) + 1]

Pad4(n) == Pad2(n \div 100) \o Pad2(n % 100)

\* datetime.strftime("%d.%m.%Y")
strftime(dt) == Pad2(dt.d) \o "." \o Pad2(dt.m) \o "." \o Pad4(dt.y)

(***************************************************************************)
(* Field types                                                             *)
(***************************************************************************)
Name(value) == [value |-> value]

\* re.match(r'^\d{10}$', value): ten decimal digits from the start, then the
\* end of the string or a newline that ends the string.
MatchTenDigits(value) ==
    /\ Len(value) \in {PhoneDigits, PhoneDigits + 1}
    /\ \A i \in 1..PhoneDigits : IsDecimalDigit(value[i])
    /\ Len(value) = PhoneDigits + 1 => value[PhoneDigits + 1] = "\n"

Phone(value) ==
    IF ~MatchTenDigits(value)
    THEN [raised |-> TRUE, exc |-> "ValueError",
          text |-> "Phone number must be 10 digits.", obj |-> None]
    ELSE [raised |-> FALSE, exc |-> "", text |-> "", obj |-> [value |-> value]]

RECURSIVE Fields(_, _, _, _)
\* The fields of s between the separators from its character i on; begun
\* is where the field that ends at or after i begins.
Fields(s, sep, i, begun) ==
    IF i > Len(s) THEN <<SubSeq(s, begun, Len(s))>>
    ELSE IF s[i] = sep
    THEN <<SubSeq(s, begun, i - 1)>> \o Fields(s, sep, i + 1, i + 1)
    ELSE Fields(s, sep, i + 1, begun)

\* value.split(sep) for a one-character sep.
SplitOn(s, sep) == Fields(s, sep, 1, 1)

AllAsciiDigits(s) == \A i \in 1..Len(s) : s[i] \in AsciiDigits

\* The %d directive: 3[0-1] | [1-2]\d | 0[1-9] | [1-9] | " "[1-9]
DayField(f) ==
    \/ Len(f) \in {1, 2} /\ AllAsciiDigits(f) /\ Number(f) \in 1..31
    \/ Len(f) = 2 /\ f[1] = " " /\ f[2] \in AsciiDigits /\ DigitValue(f[2]) # 0

\* The %m directive: 1[0-2] | 0[1-9] | [1-9]
MonthField(f) == Len(f) \in {1, 2} /\ AllAsciiDigits(f) /\ Number(f) \in 1..12

\* The %Y directive: \d\d\d\d
YearField(f) == Len(f) = 4 /\ AllAsciiDigits(f)

\* datetime.strptime(value, "%d.%m.%Y") on ASCII text: the datetime, or None
\* where it raises ValueError.
strptime(value) ==
    LET f == SplitOn(value, ".")
    IN  IF Len(f) = 3 /\ DayField(f[1]) /\ MonthField(f[2]) /\ YearField(f[3])
        THEN LET d == IF f[1][1] = " " THEN DigitValue(f[1][2]) ELSE Number(f[1])
                 m == Number(f[2])
                 y == Number(f[3])
             IN  IF ValidDate(y, m, d) THEN [y |-> y, m |-> m, d |-> d, s |-> 0]
                 ELSE None
        ELSE None

Birthday(value) ==
    IF strptime(value) = None
    THEN [raised |-> TRUE, exc |-> "ValueError",
          text |-> "Invalid date format. Use DD.MM.YYYY", obj |-> None]
    ELSE [raised |-> FALSE, exc |-> "", text |-> "",
          obj |-> [value |-> strptime(value)]]

(***************************************************************************)
(* Record                                                                  *)
(***************************************************************************)
Record(name) == [name |-> Name(name), phones |-> <<>>, birthday |-> None]

find_phone(self, phone) ==
    LET i == First({k \in 1..Len(self.phones) : self.phones[k].value = phone})
    IN  IF i = 0 THEN None ELSE self.phones[i]

\* list.remove(x): drops the first element equal to x.
list_remove(list, x) == RemoveAt(list, First({k \in 1..Len(list) : list[k] = x}))

\* add_phone as it would be if it kept the phone list free of duplicates.
add_phone_unique(self, phone) ==
    LET p == Phone(phone)
    IN  IF p.raised
        THEN [self |-> self, raised |-> TRUE, exc |-> p.exc, text |-> p.text]
        ELSE [self |-> IF \E i \in 1..Len(self.phones) : self.phones[i] = p.obj
                       THEN self
                       ELSE [self EXCEPT !.phones = Append(@, p.obj)],
              raised |-> FALSE, exc |-> "", text |-> ""]

add_phone(self, phone) ==
    LET p == Phone(phone)
    IN  IF p.raised
        THEN [self |-> self, raised |-> TRUE, exc |-> p.exc, text |-> p.text]
        ELSE [self |-> [self EXCEPT !.phones = Append(@, p.obj)],
              raised |-> FALSE, exc |-> "", text |-> ""]

remove_phone(self, phone) ==
    LET phone_obj == find_phone(self, phone)
    IN  IF phone_obj # None
        THEN [self EXCEPT !.phones = list_remove(@, phone_obj)]
        ELSE self

\* edit_phone as it would be if it dropped every phone equal to old_phone.
edit_phone_all(self, old_phone, new_phone) ==
    LET other(p) == p.value # old_phone
    IN  IF \E i \in 1..Len(self.phones) : self.phones[i].value = old_phone
        THEN LET removed == [self EXCEPT !.phones = SelectSeq(@, other)]
                 added == add_phone(removed, new_phone)
             IN  IF added.raised
                 THEN [self |-> removed, raised |-> TRUE,
                       exc |-> "ValueError", text |-> added.text]
                 ELSE added
        ELSE [self |-> self, raised |-> TRUE, exc |-> "ValueError",
              text |-> "Old phone not found."]

edit_phone(self, old_phone, new_phone) ==
    LET phone_obj == find_phone(self, old_phone)
    IN  IF phone_obj # None
        THEN LET removed == [self EXCEPT !.phones = list_remove(@, phone_obj)]
                 added == add_phone(removed, new_phone)
             IN  IF added.raised
                 THEN [self |-> removed, raised |-> TRUE,
                       exc |-> "ValueError", text |-> added.text]
                 ELSE added
        ELSE [self |-> self, raised |-> TRUE, exc |-> "ValueError",
              text |-> "Old phone not found."]

add_birthday(self, birthday) ==
    LET b == Birthday(birthday)
    IN  IF b.raised
        THEN [self |-> self, raised |-> TRUE, exc |-> b.exc, text |-> b.text]
        ELSE [self |-> [self EXCEPT !.birthday = b.obj],
              raised |-> FALSE, exc |-> "", text |-> ""]

PhoneTexts(self) == [i \in 1..Len(self.phones) |-> Text(self.phones[i].value)]

\* Record.__str__
Record_str(self) ==
    "Contact name: " \o Text(self.name.value)
        \o ", phones: " \o Join("; ", PhoneTexts(self))
        \o ", birthday: "
        \o (IF self.birthday # None THEN strftime(self.birthday.value)
            ELSE "Not set")

(***************************************************************************)
(* AddressBook: the dict `data` as the sequence of its values in insertion *)
(* order, each under the key record.name.value.                            *)
(***************************************************************************)
KeyIndex(data, name) == First({k \in 1..Len(data) : data[k].name.value = name})

add_record(data, record) ==
    LET i == KeyIndex(data, record.name.value)
    IN  IF i = 0 THEN Append(data, record) ELSE [data EXCEPT ![i] = record]

find(data, name) ==
    LET i == KeyIndex(data, name)
    IN  IF i = 0 THEN None ELSE data[i]

delete(data, name) ==
    LET i == KeyIndex(data, name)
    IN  IF i = 0 THEN data ELSE RemoveAt(data, i)

\* A record is held by reference: a method that changed it changed the
\* record the book holds.
InPlace(data, record) ==
    [i \in 1..Len(data) |->
        IF data[i].name.value = record.name.value THEN record ELSE data[i]]

\* datetime.replace(year=...): None where it raises ValueError.
replace_year(dt, year) ==
    IF ValidDate(year, dt.m, dt.d) THEN [dt EXCEPT !.y = year] ELSE None

RECURSIVE UpcomingLoop(_, _, _, _)
\* The for loop of get_upcoming_birthdays over the records still to visit.
UpcomingLoop(records, today, days, upcoming) ==
    IF records = <<>>
    THEN [raised |-> FALSE, exc |-> "", text |-> "", value |-> upcoming]
    ELSE LET record == Head(records)
         IN  IF record.birthday = None
             THEN UpcomingLoop(Tail(records), today, days, upcoming)
             ELSE LET next_birthday == replace_year(record.birthday.value, today.y)
                  IN  IF next_birthday = None
                      THEN [raised |-> TRUE, exc |-> "ValueError",
                            text |-> "day is out of range for month",
                            value |-> <<>>]
                      ELSE IF /\ NotAfter(Instant(today), Instant(next_birthday))
                              /\ NotAfter(Instant(next_birthday),
                                          PlusDays(Instant(today), days))
                           THEN UpcomingLoop(Tail(records), today, days,
                                             Append(upcoming, record))
                           ELSE UpcomingLoop(Tail(records), today, days, upcoming)

\* today: what datetime.now() returns at the call.
get_upcoming_birthdays(data, days, today) == UpcomingLoop(data, today, days, <<>>)

(***************************************************************************)
(* Command handlers.  A handler's outcome is the book it leaves, and       *)
(* either the text it returns or the exception it raises.                  *)
(***************************************************************************)
Returns(data, text) == [book |-> data, raised |-> FALSE, exc |-> "", text |-> text]

Raises(data, exc, text) == [book |-> data, raised |-> TRUE, exc |-> exc, text |-> text]

\* The ValueError of unpacking args into `fixed` names (and *_ when starred).
NotEnough(fixed, starred, got) ==
    "not enough values to unpack (expected "
        \o (IF starred THEN "at least " ELSE "")
        \o ToString(fixed) \o ", got " \o ToString(got) \o ")"

TooMany(fixed) == "too many values to unpack (expected " \o ToString(fixed) \o ")"

\* The exceptions the wrapper of input_error catches.
Caught == {"ValueError", "IndexError", "KeyError"}

\* The wrapper as it would be if it caught IndexError and KeyError only.
input_error_lookup_only(outcome) ==
    IF outcome.raised /\ outcome.exc \in {"IndexError", "KeyError"}
    THEN Returns(outcome.book, outcome.text)
    ELSE outcome

\* wrapper(*args, **kwargs) around a handler's outcome.
input_error(outcome) ==
    IF outcome.raised /\ outcome.exc \in Caught
    THEN Returns(outcome.book, outcome.text)
    ELSE outcome

add_contact_body(args, data) ==
    IF Len(args) < 2
    THEN Raises(data, "ValueError", NotEnough(2, TRUE, Len(args)))
    ELSE LET name == args[1]
             phone == args[2]
             found == find(data, name)
             record == IF found = None THEN Record(name) ELSE found
             data1 == IF found = None THEN add_record(data, record) ELSE data
             message == IF found = None THEN "Contact added." ELSE "Contact updated."
         IN  IF phone # <<>>
             THEN LET added == add_phone(record, phone)
                  IN  IF added.raised
                      THEN Raises(data1, added.exc, added.text)
                      ELSE Returns(InPlace(data1, added.self), message)
             ELSE Returns(data1, message)

add_contact(args, data) == input_error(add_contact_body(args, data))

change_phone_body(args, data) ==
    IF Len(args) < 3
    THEN Raises(data, "ValueError", NotEnough(3, FALSE, Len(args)))
    ELSE IF Len(args) > 3
    THEN Raises(data, "ValueError", TooMany(3))
    ELSE LET record == find(data, args[1])
         IN  IF record # None
             THEN LET edited == edit_phone(record, args[2], args[3])
                  IN  IF edited.raised
                      THEN Raises(InPlace(data, edited.self), edited.exc, edited.text)
                      ELSE Returns(InPlace(data, edited.self), "Phone number updated.")
             ELSE Returns(data, "Contact not found.")

change_phone(args, data) == input_error(change_phone_body(args, data))

show_phone_body(args, data) ==
    IF Len(args) < 1
    THEN Raises(data, "ValueError", NotEnough(1, TRUE, Len(args)))
    ELSE LET name == args[1]
             record == find(data, name)
         IN  IF record # None
             THEN Returns(data, Text(name) \o ": " \o Join(", ", PhoneTexts(record)))
             ELSE Returns(data, "Contact not found.")

show_phone(args, data) == input_error(show_phone_body(args, data))

\* add_birthday as it would be if it created the record of an unknown name,
\* the way add_contact does.
add_birthday_creating(args, data) ==
    IF Len(args) < 2
    THEN Raises(data, "ValueError", NotEnough(2, FALSE, Len(args)))
    ELSE IF Len(args) > 2
    THEN Raises(data, "ValueError", TooMany(2))
    ELSE LET found == find(data, args[1])
             record == IF found = None THEN Record(args[1]) ELSE found
             data1 == IF found = None THEN add_record(data, record) ELSE data
             set == add_birthday(record, args[2])
         IN  IF set.raised
             THEN Raises(data1, set.exc, set.text)
             ELSE Returns(InPlace(data1, set.self), "Birthday added.")

add_birthday_body(args, data) ==
    IF Len(args) < 2
    THEN Raises(data, "ValueError", NotEnough(2, FALSE, Len(args)))
    ELSE IF Len(args) > 2
    THEN Raises(data, "ValueError", TooMany(2))
    ELSE LET record == find(data, args[1])
         IN  IF record # None
             THEN LET set == add_birthday(record, args[2])
                  IN  IF set.raised
                      THEN Raises(data, set.exc, set.text)
                      ELSE Returns(InPlace(data, set.self), "Birthday added.")
             ELSE Returns(data, "Contact not found.")

add_birthday_cmd(args, data) == input_error(add_birthday_body(args, data))

show_birthday_body(args, data) ==
    IF Len(args) < 1
    THEN Raises(data, "ValueError", NotEnough(1, TRUE, Len(args)))
    ELSE LET name == args[1]
             record == find(data, name)
         IN  IF record # None
             THEN IF record.birthday # None
                  THEN Returns(data, Text(name) \o "'s birthday is "
                                        \o strftime(record.birthday.value))
                  ELSE Returns(data, Text(name) \o " has no birthday set.")
             ELSE Returns(data, "Contact not found.")

show_birthday(args, data) == input_error(show_birthday_body(args, data))

show_birthdays_body(args, data, today) ==
    LET upcoming == get_upcoming_birthdays(data, DefaultDays, today)
    IN  IF upcoming.raised
        THEN Raises(data, upcoming.exc, upcoming.text)
        ELSE IF upcoming.value # <<>>
        THEN Returns(data, Join("\n", [i \in 1..Len(upcoming.value) |->
                                          Record_str(upcoming.value[i])]))
        ELSE Returns(data, "No upcoming birthdays.")

show_birthdays(args, data, today) == input_error(show_birthdays_body(args, data, today))

(***************************************************************************)
(* Persistence: addressbook.pkl holds the pickle of the whole book, a      *)
(* stream of opcodes that load_data reads back into objects.               *)
(***************************************************************************)
NoFile == [exists |-> FALSE, bytes |-> <<>>]

\* DumpRecord as it would be if the birthday were left out of the stream.
DumpRecord_no_birthday(record) ==
    <<[op |-> "OBJ", arg |-> "Record"],
      [op |-> "STR", arg |-> record.name.value],
      [op |-> "LIST", arg |-> Len(record.phones)]>>
        \o [i \in 1..Len(record.phones) |->
                [op |-> "STR", arg |-> record.phones[i].value]]
        \o <<[op |-> "NONE", arg |-> None]>>

\* The stream of one Record: its name, the length of its phone list, the
\* phones in order, its birthday.
DumpRecord(record) ==
    <<[op |-> "OBJ", arg |-> "Record"],
      [op |-> "STR", arg |-> record.name.value],
      [op |-> "LIST", arg |-> Len(record.phones)]>>
        \o [i \in 1..Len(record.phones) |->
                [op |-> "STR", arg |-> record.phones[i].value]]
        \o <<IF record.birthday = None THEN [op |-> "NONE", arg |-> None]
             ELSE [op |-> "DATETIME", arg |-> record.birthday.value]>>

RECURSIVE pickle_dump(_)
pickle_dump(data) ==
    IF data = <<>> THEN <<>> ELSE DumpRecord(Head(data)) \o pickle_dump(Tail(data))

RECURSIVE pickle_load(_)
pickle_load(bytes) ==
    IF bytes = <<>> THEN <<>>
    ELSE LET n == bytes[3].arg
             last == bytes[4 + n]
             record == [name |-> Name(bytes[2].arg),
                        phones |-> [i \in 1..n |-> [value |-> bytes[3 + i].arg]],
                        birthday |-> IF last.op = "NONE" THEN None
                                     ELSE [value |-> last.arg]]
         IN  <<record>> \o pickle_load(SubSeq(bytes, 5 + n, Len(bytes)))

\* open(filename, "wb") and pickle.dump: the file is replaced as a whole.
save_data(data) == [exists |-> TRUE, bytes |-> pickle_dump(data)]

\* FileNotFoundError gives AddressBook().
load_data(f) == IF f.exists THEN pickle_load(f.bytes) ELSE <<>>

(***************************************************************************)
(* REPL driver                                                             *)
(***************************************************************************)
RECURSIVE Words(_, _, _)
\* The words of s from its character i on; begun is where the word that
\* holds the character before i begins, 0 if that character is no part of
\* a word.
Words(s, i, begun) ==
    IF i > Len(s)
    THEN IF begun = 0 THEN <<>> ELSE <<SubSeq(s, begun, Len(s))>>
    ELSE IF s[i] \in Whitespace
    THEN (IF begun = 0 THEN <<>> ELSE <<SubSeq(s, begun, i - 1)>>)
            \o Words(s, i + 1, 0)
    ELSE Words(s, i + 1, IF begun = 0 THEN i ELSE begun)

\* str.split(): the runs of characters between whitespace.
split(s) == Words(s, 1, 0)

\* parts[0] raises IndexError on a line without a token.
parse_input(user_input) ==
    LET parts == split(user_input)
    IN  IF parts = <<>>
        THEN [raised |-> TRUE, exc |-> "IndexError", command |-> "", args |-> <<>>]
        ELSE [raised |-> FALSE, exc |-> "", command |-> Text(parts[1]),
              args |-> Tail(parts)]

\* Whether execute_command saves the book and returns False.
Closes(command) == command \in {"close", "exit"}

\* The handler execute_command dispatches to; every other command leaves the
\* book alone.
Dispatch(command, args, data, today) ==
    IF command = "add" THEN add_contact(args, data)
    ELSE IF command = "change" THEN change_phone(args, data)
    ELSE IF command = "phone" THEN show_phone(args, data)
    ELSE IF command = "all"
         THEN Returns(data, Join("\n", [i \in 1..Len(data) |-> Record_str(data[i])]))
    ELSE IF command = "add-birthday" THEN add_birthday_cmd(args, data)
    ELSE IF command = "show-birthday" THEN show_birthday(args, data)
    ELSE IF command = "birthdays" THEN show_birthdays(args, data, today)
    ELSE IF command = "hello" THEN Returns(data, "How can I help you?")
    ELSE IF Closes(command) THEN Returns(data, "Goodbye!")
    ELSE Returns(data, "Invalid command.")

\* execute_command: the book and file it leaves, what the view shows, whether
\* the loop goes on, and the exception that escapes it if one does.
execute_command(command, args, data, f, today) ==
    LET done == Dispatch(command, args, data, today)
    IN  [book |-> done.book,
         file |-> IF Closes(command) THEN save_data(data) ELSE f,
         raised |-> done.raised, exc |-> done.exc, text |-> done.text,
         continue |-> ~Closes(command)]

(***************************************************************************)
(* Inputs                                                                  *)
(***************************************************************************)
John == <<"J", "o", "h", "n">>

Alice == <<"A", "l", "i", "c", "e">>

Names == {John, Alice}

PhoneA == <<"1", "2", "3", "4", "5", "6", "7", "8", "9", "0">>

PhoneB == [i \in 1..PhoneDigits |-> "2"]

\* Ten ARABIC-INDIC DIGIT ONE.
PhoneArabic == [i \in 1..PhoneDigits |-> "U+0661"]

PhoneNewline == PhoneA \o <<"\n">>

PhoneShort == <<"1", "2", "3">>

PhoneLong == PhoneA \o <<"1">>

PhoneLetters == [i \in 1..PhoneDigits |-> "a"]

PhoneSpaced == <<" ">> \o PhoneA

\* Phone texts the handlers are called with.
HandlerPhones == {PhoneA, PhoneB, PhoneArabic, PhoneShort}

\* Texts Phone is constructed from.
PhoneTextsTried ==
    HandlerPhones \cup {<<>>, PhoneNewline, PhoneLong, PhoneLetters, PhoneSpaced}

Digits2(n) == <<AsciiDigitSeq[(n \div 10) + 1], AsciiDigitSeq[(n % 10) + 1]>>

DateText(d, m, y) ==
    Digits2(d) \o <<".">> \o Digits2(m) \o <<".">>
        \o Digits2(y \div 100) \o Digits2(y % 100)

\* Birthday texts: 1 June, 29 February, and two that are no dates.
BirthdayTexts ==
    {DateText(1, 6, 1990), DateText(29, 2, 2000), DateText(31, 2, 2000),
     <<"s", "o", "o", "n">>}

\* 12:00:00 as the second of the day.
Noon == 12 * 3600

\* Moments datetime.now() returns.  In the leap year 2024: 1 June at midnight
\* and at noon, 25 May (1 June is 7 days ahead), 18 May (14 days ahead),
\* 25 February (29 February is 4 days ahead); in 2023: 1 June.
Todays ==
    {[y |-> 2024, m |-> 6, d |-> 1, s |-> 0],
     [y |-> 2024, m |-> 6, d |-> 1, s |-> Noon],
     [y |-> 2024, m |-> 5, d |-> 25, s |-> Noon],
     [y |-> 2024, m |-> 5, d |-> 18, s |-> Noon],
     [y |-> 2024, m |-> 2, d |-> 25, s |-> Noon],
     [y |-> 2023, m |-> 6, d |-> 1, s |-> Noon]}

DaysTried == {DefaultDays, 2 * DefaultDays}

AddArgs ==
    {<<>>, <<John>>, <<John, <<>>>>, <<John, PhoneA, PhoneB>>}
        \cup {<<n, p>> : n \in Names, p \in HandlerPhones}

ChangeArgs ==
    {<<>>, <<John, PhoneA>>, <<John, PhoneA, PhoneB, PhoneB>>}
        \cup {<<n, o, p>> : n \in Names, o \in {PhoneA, PhoneB},
                            p \in HandlerPhones}

NameArgs == {<<>>, <<John, PhoneA>>} \cup {<<n>> : n \in Names}

BirthdayArgs ==
    {<<>>, <<John>>, <<John, DateText(1, 6, 1990), John>>}
        \cup {<<n, b>> : n \in Names, b \in BirthdayTexts}

RECURSIVE TotalPhones(_)
TotalPhones(data) ==
    IF data = <<>> THEN 0 ELSE Len(Head(data).phones) + TotalPhones(Tail(data))

(***************************************************************************)
(* State                                                                   *)
(*   book        the AddressBook in memory                                 *)
(*   file        addressbook.pkl                                           *)
(*   pc          "stopped": no process; "started": AddressBookApp built,   *)
(*               run() at its first input(); "loop": at a later input()    *)
(*   exitStatus  exit status of the last process that ended, -1 before     *)
(*   closed      the book as it was at the last close or exit command      *)
(*   unsaved     whether the last process ended with a book in memory that *)
(*               differs from the one last saved                           *)
(*   pre, call, out   the observation of one call: the book before it, the *)
(*               operation with its arguments, and its outcome.  A run is  *)
(*               any sequence of calls; the observation is of its last     *)
(*               call and is empty (NoCall) until then.                    *)
(***************************************************************************)
NoCall == [op |-> "", args |-> <<>>, today |-> None, days |-> 0]

CallOf(op, args) == [op |-> op, args |-> args, today |-> None, days |-> 0]

Outcome(r, value) ==
    [raised |-> r.raised, exc |-> r.exc, text |-> r.text, value |-> value]

NoOutcome == [raised |-> FALSE, exc |-> "", text |-> "", value |-> <<>>]

\* The call c with outcome o, made on `book`, is observed or not.
Observe(watch, c, o) ==
    /\ pre' = IF watch THEN book ELSE <<>>
    /\ call' = IF watch THEN c ELSE NoCall
    /\ out' = IF watch THEN o ELSE NoOutcome

Init ==
    /\ book = <<>>
    /\ file = NoFile
    /\ pc = "stopped"
    /\ exitStatus = -1
    /\ closed = <<>>
    /\ unsaved = FALSE
    /\ pre = <<>>
    /\ call = NoCall
    /\ out = NoOutcome

AddContact ==
    /\ call = NoCall
    /\ \E args \in AddArgs, watch \in BOOLEAN :
        \E r \in {add_contact(args, book)} :
            /\ TotalPhones(r.book) <= MaxPhones
            /\ book' = r.book
            /\ Observe(watch, CallOf("add_contact", args), Outcome(r, <<>>))
    /\ UNCHANGED <<file, pc, exitStatus, closed, unsaved>>

ChangePhone ==
    /\ call = NoCall
    /\ \E args \in ChangeArgs, watch \in BOOLEAN :
        \E r \in {change_phone(args, book)} :
            /\ book' = r.book
            /\ Observe(watch, CallOf("change_phone", args), Outcome(r, <<>>))
    /\ UNCHANGED <<file, pc, exitStatus, closed, unsaved>>

ShowPhone ==
    /\ call = NoCall
    /\ \E args \in NameArgs, watch \in BOOLEAN :
        \E r \in {show_phone(args, book)} :
            /\ book' = r.book
            /\ Observe(watch, CallOf("show_phone", args), Outcome(r, <<>>))
    /\ UNCHANGED <<file, pc, exitStatus, closed, unsaved>>

AddBirthday ==
    /\ call = NoCall
    /\ \E args \in BirthdayArgs, watch \in BOOLEAN :
        \E r \in {add_birthday_cmd(args, book)} :
            /\ book' = r.book
            /\ Observe(watch, CallOf("add_birthday", args), Outcome(r, <<>>))
    /\ UNCHANGED <<file, pc, exitStatus, closed, unsaved>>

ShowBirthday ==
    /\ call = NoCall
    /\ \E args \in NameArgs, watch \in BOOLEAN :
        \E r \in {show_birthday(args, book)} :
            /\ book' = r.book
            /\ Observe(watch, CallOf("show_birthday", args), Outcome(r, <<>>))
    /\ UNCHANGED <<file, pc, exitStatus, closed, unsaved>>

ShowBirthdays ==
    /\ call = NoCall
    /\ \E args \in {<<>>, <<John>>}, today \in Todays, watch \in BOOLEAN :
        \E r \in {show_birthdays(args, book, today)} :
            /\ book' = r.book
            /\ Observe(watch, [CallOf("show_birthdays", args) EXCEPT !.today = today],
                       Outcome(r, <<>>))
    /\ UNCHANGED <<file, pc, exitStatus, closed, unsaved>>

\* Record.remove_phone called on a record of the book.
RemovePhone ==
    /\ call = NoCall
    /\ \E name \in Names, phone \in {PhoneA, PhoneB}, watch \in BOOLEAN :
        /\ find(book, name) # None
        /\ book' = InPlace(book, remove_phone(find(book, name), phone))
        /\ Observe(watch, CallOf("remove_phone", <<name, phone>>), NoOutcome)
    /\ UNCHANGED <<file, pc, exitStatus, closed, unsaved>>

\* AddressBook.delete
Delete ==
    /\ call = NoCall
    /\ \E name \in Names, watch \in BOOLEAN :
        /\ book' = delete(book, name)
        /\ Observe(watch, CallOf("delete", <<name>>), NoOutcome)
    /\ UNCHANGED <<file, pc, exitStatus, closed, unsaved>>

\* AddressBook.get_upcoming_birthdays(days) called at the moment today.
GetUpcoming ==
    /\ call = NoCall
    /\ \E days \in DaysTried, today \in Todays :
        Observe(TRUE,
                [op |-> "get_upcoming_birthdays", args |-> <<>>,
                 today |-> today, days |-> days],
                get_upcoming_birthdays(book, days, today))
    /\ UNCHANGED <<book, file, pc, exitStatus, closed, unsaved>>

\* Phone(value)
NewPhone ==
    /\ call = NoCall
    /\ \E value \in PhoneTextsTried :
        LET p == Phone(value)
        IN  Observe(TRUE, CallOf("Phone", <<value>>),
                    Outcome(p, IF p.raised THEN <<>> ELSE <<p.obj>>))
    /\ UNCHANGED <<book, file, pc, exitStatus, closed, unsaved>>

Next ==
    \/ AddContact
    \/ ChangePhone
    \/ ShowPhone
    \/ AddBirthday
    \/ ShowBirthday
    \/ ShowBirthdays
    \/ RemovePhone
    \/ Delete
    \/ GetUpcoming
    \/ NewPhone

\* The handlers and methods called on one address book.
Spec == Init /\ [][Next]_vars

(***************************************************************************)
(* The application: processes that start from addressbook.pkl, read lines  *)
(* and end.                                                                *)
(***************************************************************************)
RECURSIVE SpaceJoin(_)
\* The line that holds the words with one space between them.
SpaceJoin(words) ==
    IF words = <<>> THEN <<>>
    ELSE IF Len(words) = 1 THEN words[1]
    ELSE words[1] \o <<" ">> \o SpaceJoin(Tail(words))

WordAdd == <<"a", "d", "d">>

WordChange == <<"c", "h", "a", "n", "g", "e">>

WordPhone == <<"p", "h", "o", "n", "e">>

WordAll == <<"a", "l", "l">>

WordAddBirthday == WordAdd \o <<"-", "b", "i", "r", "t", "h", "d", "a", "y">>

WordShowBirthday == <<"s", "h", "o", "w", "-", "b", "i", "r", "t", "h", "d", "a", "y">>

WordBirthdays == <<"b", "i", "r", "t", "h", "d", "a", "y", "s">>

WordHello == <<"h", "e", "l", "l", "o">>

WordClose == <<"c", "l", "o", "s", "e">>

WordExit == <<"e", "x", "i", "t">>

\* Lines typed at the prompt: commands, a word that is no command, a line
\* with blanks around its words, an empty line and a line of blanks.
Lines ==
    {SpaceJoin(<<WordAdd, John, PhoneA>>),
     SpaceJoin(<<WordAdd, Alice, PhoneB>>),
     SpaceJoin(<<WordAdd, John, PhoneArabic>>),
     SpaceJoin(<<WordAdd, John>>),
     SpaceJoin(<<WordChange, John, PhoneA, PhoneB>>),
     SpaceJoin(<<WordPhone, John>>),
     SpaceJoin(<<WordAll>>),
     SpaceJoin(<<WordAddBirthday, John, DateText(29, 2, 2000)>>),
     SpaceJoin(<<WordAddBirthday, Alice, DateText(1, 6, 1990)>>),
     SpaceJoin(<<WordShowBirthday, John>>),
     SpaceJoin(<<WordBirthdays>>),
     <<" ", "\t">> \o SpaceJoin(<<WordHello>>) \o <<" ">>,
     SpaceJoin(<<WordClose>>),
     SpaceJoin(<<WordExit, John>>),
     SpaceJoin(<<John>>),
     <<>>,
     <<" ", " ">>}

\* Moments datetime.now() returns while the application runs.
AppTodays == {t \in Todays : t.m = 6 /\ t.d = 1 /\ t.s = Noon}

\* AddressBookApp.__init__ and the start of run(): the book is loaded.
Start ==
    /\ pc = "stopped"
    /\ book' = load_data(file)
    /\ pc' = "started"
    /\ UNCHANGED <<file, exitStatus, closed, unsaved, pre, call, out>>

\* One turn of the loop of run(): input() returns a line.
ReadLine ==
    /\ pc \in {"started", "loop"}
    /\ \E user_input \in Lines :
        \E parsed \in {parse_input(user_input)} :
            IF parsed.raised
            THEN \* the exception ends the process with a traceback
                 /\ pc' = "stopped"
                 /\ exitStatus' = 1
                 /\ unsaved' = (book # closed)
                 /\ UNCHANGED <<book, file, closed>>
            ELSE \E today \in AppTodays :
                 \E r \in {execute_command(parsed.command, parsed.args,
                                            book, file, today)} :
                     /\ TotalPhones(r.book) <= MaxPhones
                     /\ book' = r.book
                     /\ file' = r.file
                     /\ IF r.raised
                        THEN /\ pc' = "stopped"
                             /\ exitStatus' = 1
                             /\ unsaved' = (r.book # closed)
                             /\ UNCHANGED closed
                        ELSE IF r.continue
                        THEN /\ pc' = "loop"
                             /\ UNCHANGED <<exitStatus, closed, unsaved>>
                        ELSE \* run() returns, the interpreter exits
                             /\ pc' = "stopped"
                             /\ exitStatus' = 0
                             /\ closed' = book
                             /\ unsaved' = FALSE
    /\ UNCHANGED <<pre, call, out>>

\* input() at the end of the input stream raises EOFError, which nothing
\* catches.
EndOfInput ==
    /\ pc \in {"started", "loop"}
    /\ pc' = "stopped"
    /\ exitStatus' = 1
    /\ unsaved' = (book # closed)
    /\ UNCHANGED <<book, file, closed, pre, call, out>>

NextApp ==
    \/ Start
    \/ ReadLine
    \/ EndOfInput

\* The application run any number of times over one addressbook.pkl.
SpecApp == Init /\ [][NextApp]_vars

(***************************************************************************)
(* Properties                                                              *)
(***************************************************************************)
\* A phone as the specification defines it: exactly 10 ASCII decimal digits.
TenAsciiDigits(value) ==
    /\ Len(value) = PhoneDigits
    /\ \A i \in 1..PhoneDigits : value[i] \in AsciiDigits

HandlerOps ==
    {"add_contact", "change_phone", "show_phone", "add_birthday",
     "show_birthday", "show_birthdays"}

\* How many phones of the record have the value.
Occurrences(record, value) ==
    Cardinality({i \in 1..Len(record.phones) : record.phones[i].value = value})

\* The phone list without its first phone of the value.
WithoutFirst(record, value) ==
    LET S == {i \in 1..Len(record.phones) : record.phones[i].value = value}
        first == CHOOSE i \in S : \A j \in S : i <= j
    IN  [k \in 1..(Len(record.phones) - 1) |->
            IF k < first THEN record.phones[k] ELSE record.phones[k + 1]]

HasFeb29(data) ==
    \E i \in 1..Len(data) :
        /\ data[i].birthday # None
        /\ data[i].birthday.value.m = 2
        /\ data[i].birthday.value.d = 29

\* C1: every command handler, whatever its arguments and whatever the book
\* (one holding a 29 February birthday included), returns a non-empty string
\* and lets no exception out.
C1_HandlersReturnText ==
    call.op \in HandlerOps => ~out.raised /\ out.text # ""

\* C1, its case: show_birthdays called in a year that has no 29 February on
\* a book with a 29 February birthday returns the text of the ValueError.
C1_Witness ==
    /\ call.op = "show_birthdays"
    /\ HasFeb29(pre)
    /\ ~IsLeap(call.today.y)
    /\ ~out.raised
    /\ out.text = "day is out of range for month"

\* The substituted birthday of the record lies on one of the days
\* today .. today + days, both ends included.
InWindow(record, today, days) ==
    LET t == ToOrdinal(today.y, today.m, today.d)
        b == ToOrdinal(today.y, record.birthday.value.m, record.birthday.value.d)
    IN  t <= b /\ b <= t + days

\* C2: get_upcoming_birthdays(days) returns a record if and only if the
\* record has a birthday that, with the current year substituted, lies in
\* [today, today + days], both ends included, for every book and moment.
C2_UpcomingIsClosedWindow ==
    call.op = "get_upcoming_birthdays" =>
        /\ ~out.raised
        /\ \A i \in 1..Len(pre) :
              (\E j \in 1..Len(out.value) : out.value[j] = pre[i])
                 <=> (/\ pre[i].birthday # None
                      /\ InWindow(pre[i], call.today, call.days))

\* C3: a process starts with the book as it was at the most recent close or
\* exit command, and with the empty book when there is no file; what a
\* process that ended otherwise changed is not there.
C3_StartsFromLastClose ==
    pc = "started" =>
        /\ book = closed
        /\ ~file.exists => book = <<>>

\* C3, its case: a process starts after one that ended without close or
\* exit and with unsaved changes; an earlier one saved two records, one with
\* a birthday.
C3_Witness ==
    /\ pc = "started"
    /\ unsaved
    /\ Len(book) = 2
    /\ \E i \in 1..Len(book) : book[i].birthday # None
    /\ \E i \in 1..Len(book) : book[i].phones # <<>>

\* The call observed is `change name old new` on a contact that exists.
ChangeOnContact ==
    /\ call.op = "change_phone"
    /\ Len(call.args) = 3
    /\ find(pre, call.args[1]) # None

\* C4: edit_phone(old, new) on a record that holds old, with new not a valid
\* phone, fails with "Phone number must be 10 digits." and leaves the phone
\* list without its first old and with nothing appended; on a record that
\* does not hold old it fails with "Old phone not found." and changes
\* nothing.  (The failure is seen as the text change_phone returns.)
C4_FailedEditDropsOld ==
    ChangeOnContact =>
        LET before == find(pre, call.args[1])
            after == find(book, call.args[1])
            old == call.args[2]
            new == call.args[3]
        IN  /\ (find_phone(before, old) # None /\ ~TenAsciiDigits(new)) =>
                  /\ out.text = "Phone number must be 10 digits."
                  /\ after.phones = WithoutFirst(before, old)
            /\ find_phone(before, old) = None =>
                  /\ out.text = "Old phone not found."
                  /\ book = pre

\* C4 for every new that Phone rejects: the two-step behaviour itself.
C4_OnRejectedText ==
    ChangeOnContact =>
        LET before == find(pre, call.args[1])
            after == find(book, call.args[1])
            old == call.args[2]
            new == call.args[3]
        IN  /\ (find_phone(before, old) # None /\ ~MatchTenDigits(new)) =>
                  /\ out.text = "Phone number must be 10 digits."
                  /\ after.phones = WithoutFirst(before, old)
            /\ find_phone(before, old) = None =>
                  /\ out.text = "Old phone not found."
                  /\ book = pre

\* The call observed is an edit_phone(old, new) that succeeded, on a record
\* that held old, with a valid new other than old.
EditSucceeded ==
    /\ ChangeOnContact
    /\ find_phone(find(pre, call.args[1]), call.args[2]) # None
    /\ TenAsciiDigits(call.args[3])
    /\ call.args[3] # call.args[2]
    /\ out.text = "Phone number updated."

\* C5 as stated: after a successful edit_phone(old, new), find_phone(old) is
\* none and find_phone(new) is a phone of value new, duplicates or not.
C5_OldGoneAfterEdit ==
    EditSucceeded =>
        LET after == find(book, call.args[1])
        IN  /\ find_phone(after, call.args[2]) = None
            /\ find_phone(after, call.args[3]) # None
            /\ find_phone(after, call.args[3]).value = call.args[3]

\* C5 as amended: after a successful edit_phone(old, new), find_phone(new)
\* is a phone of value new, and find_phone(old) is none exactly when the
\* record held old once; of k phones equal to old, k - 1 remain.
C5_OneOldGoneAfterEdit ==
    EditSucceeded =>
        LET before == find(pre, call.args[1])
            after == find(book, call.args[1])
        IN  /\ find_phone(after, call.args[3]) # None
            /\ find_phone(after, call.args[3]).value = call.args[3]
            /\ find_phone(after, call.args[2]) = None
                  <=> Occurrences(before, call.args[2]) = 1
            /\ Occurrences(after, call.args[2])
                  = Occurrences(before, call.args[2]) - 1

\* C5, its case: the edit succeeded on a record that held old twice.
C5_Witness ==
    /\ EditSucceeded
    /\ Occurrences(find(pre, call.args[1]), call.args[2]) = 2
    /\ find_phone(find(book, call.args[1]), call.args[2]) # None

\* C6: `add name phone` with a valid phone returns "Contact added." exactly
\* when the name was absent and "Contact updated." exactly when it was
\* present, and appends the phone at the end of the contact's list even if
\* the list holds it already; `phone name` returns the name, ": " and the
\* phones in insertion order joined by ", ".
C6_AddAppendsPhoneShows ==
    /\ (/\ call.op = "add_contact"
        /\ Len(call.args) >= 2
        /\ TenAsciiDigits(call.args[2])) =>
          LET before == find(pre, call.args[1])
              after == find(book, call.args[1])
              had == IF before = None THEN <<>> ELSE before.phones
          IN  /\ out.text = "Contact added." <=> before = None
              /\ out.text = "Contact updated." <=> before # None
              /\ after # None
              /\ after.phones = had \o <<[value |-> call.args[2]]>>
    /\ (/\ call.op = "show_phone"
        /\ Len(call.args) >= 1
        /\ find(pre, call.args[1]) # None) =>
          LET record == find(pre, call.args[1])
          IN  /\ out.text = Text(call.args[1]) \o ": "
                               \o Join(", ", PhoneTexts(record))
              /\ (call.args[1] = John /\ record.phones
                     = <<[value |-> PhoneA], [value |-> PhoneA]>>)
                    => out.text = "John: 1234567890, 1234567890"
              /\ book = pre

\* C6, its case: a number John holds already is added again.
C6_Witness ==
    /\ call.op = "add_contact"
    /\ call.args = <<John, PhoneA>>
    /\ out.text = "Contact updated."
    /\ find(book, John).phones = <<[value |-> PhoneA], [value |-> PhoneA]>>

\* The number of arguments of a command's contract.
ContractArgs(op) ==
    IF op = "change_phone" THEN 3
    ELSE IF op = "add_birthday" THEN 2
    ELSE 1

\* The call observed is one of change, phone, add-birthday, show-birthday,
\* with the arguments of its contract, for a name the book does not hold.
OnAbsentName ==
    /\ call.op \in {"change_phone", "show_phone", "add_birthday", "show_birthday"}
    /\ Len(call.args) = ContractArgs(call.op)
    /\ find(pre, call.args[1]) = None

\* C7: change, phone, add-birthday and show-birthday for a name that is not
\* in the book return "Contact not found." and leave the book as it was.
C7_AbsentNameNotFound ==
    OnAbsentName =>
        /\ ~out.raised
        /\ out.text = "Contact not found."
        /\ book = pre

\* C7, its case: add-birthday with a date that is one, for a name that is
\* absent from a book that holds another contact.
C7_Witness ==
    /\ OnAbsentName
    /\ call.op = "add_birthday"
    /\ Birthday(call.args[2]).raised = FALSE
    /\ pre # <<>>

\* C8: Phone(value) succeeds if and only if value is exactly 10 ASCII
\* decimal digits, and then renders as value; every other text fails with
\* "Phone number must be 10 digits."; so every phone stored in a record is a
\* text of exactly 10 ASCII digits.
C8_PhoneIsTenAsciiDigits ==
    /\ call.op = "Phone" =>
          /\ ~out.raised <=> TenAsciiDigits(call.args[1])
          /\ ~out.raised => Text(out.value[1].value) = Text(call.args[1])
          /\ out.raised => out.text = "Phone number must be 10 digits."
    /\ \A i \in 1..Len(book) :
          \A j \in 1..Len(book[i].phones) :
              TenAsciiDigits(book[i].phones[j].value)

\* C9: whatever the lines, the process ends normally, with exit status 0: on
\* close or exit, at the end of the input, and never by an exception.
C9_AlwaysExitsZero == exitStatus # 1

\* C10: `add name phone` with a phone that is not valid returns "Phone
\* number must be 10 digits."; if the name was absent the book then holds a
\* new record for it with no phone and no birthday, and if the name was
\* present the book is as it was.
C10_InvalidPhoneOnAdd ==
    (/\ call.op = "add_contact"
     /\ Len(call.args) >= 2
     /\ call.args[2] # <<>>
     /\ ~TenAsciiDigits(call.args[2])) =>
        /\ out.text = "Phone number must be 10 digits."
        /\ find(pre, call.args[1]) = None
              => book = Append(pre, Record(call.args[1]))
        /\ find(pre, call.args[1]) # None => book = pre

\* C10 for every phone text that Phone rejects.
C10_OnRejectedText ==
    (/\ call.op = "add_contact"
     /\ Len(call.args) >= 2
     /\ ~MatchTenDigits(call.args[2])
     /\ call.args[2] # <<>>) =>
        /\ out.text = "Phone number must be 10 digits."
        /\ find(pre, call.args[1]) = None
              => book = Append(pre, Record(call.args[1]))
        /\ find(pre, call.args[1]) # None => book = pre

====
